---------------------------- MODULE Spec2Model ----------------------------
(***************************************************************************)
(* A model of the four calibration utility scripts of image_to_pointcloud: *)
(*   src/utils/checker_generator.py   (target generator)                   *)
(*   src/utils/frame_extractor.py     (frame extractor)                    *)
(*   src/utils/visualize_corners.py   (corner visualizer)                  *)
(*   src/calibrator.py                (calibrator)                         *)
(* One behaviour is one run of one script.  The environment (directory     *)
(* contents, whether a file decodes, whether corners are found, what the   *)
(* solve returns) is chosen nondeterministically where the code meets it.  *)
(* Lengths are in millimetres: the code works in points, a fixed multiple  *)
(* of a millimetre, and is modelled in exact arithmetic.                   *)
(***************************************************************************)
EXTENDS Integers, Sequences, FiniteSets, TLC

VARIABLES
    script,            \* which script's __main__ is run
    caseInsensitive,   \* glob matches extensions without regard to case
    source_dir,        \* the files of the configured source directory
    output_dir_exists, \* os.path.exists(output_dir)
    made_dirs,         \* os.makedirs(output_dir) was called by this run
    written,           \* the paths written by this run, in order
    reported,          \* the kinds of message printed by this run
    pc,                \* position in the script
    \* ---- frame extractor
    frame_count,       \* requested frames per video
    video_files,       \* sorted, de-duplicated list of videos
    vidx,              \* position of the for loop over video_files
    open_caps,         \* videos whose capture handle is open
    total_frames,
    frame_indices,
    fpos,              \* 1-based position of the enumerate loop (i + 1)
    frames_saved,
    failed_positions,  \* frame positions of this video whose read failed
    \* ---- corner visualizer and calibrator
    image_paths,       \* sorted, de-duplicated list of images
    iidx,              \* position of the for loop over image_paths
    outcomes,          \* what became of each image processed so far
    detect_calls,      \* the images findChessboardCorners was called on
    \* ---- calibrator
    objpoints,
    imgpoints,
    successful_detections,
    image_shape,       \* <<>> for None, else <<shape>>
    solve,             \* "none", "returned" or "raised": cv2.calibrateCamera
    ret,               \* the value calibrateCamera returned (RMS error)
    rvecs,
    tvecs,
    mean_error,        \* in quarter pixels
    saved,             \* <<>>, else <<the arrays given to np.savez>>
    \* ---- target generator
    box_size_mm,
    margin_mm,
    num_boxes_x,
    num_boxes_y,
    row,
    col,
    rects              \* the rectangles drawn on the canvas, in order

ext_vars == <<frame_count, video_files, vidx, open_caps, total_frames,
              frame_indices, fpos, frames_saved, failed_positions>>
env_vars == <<script, caseInsensitive, source_dir>>
fs_vars == <<output_dir_exists, made_dirs, written>>
img_vars == <<image_paths, iidx, outcomes, detect_calls>>
cal_vars == <<objpoints, imgpoints, successful_detections, image_shape,
              solve, ret, rvecs, tvecs, mean_error, saved>>
gen_vars == <<box_size_mm, margin_mm, num_boxes_x, num_boxes_y, row, col, rects>>
vars == <<env_vars, fs_vars, reported, pc, ext_vars, img_vars, cal_vars, gen_vars>>

-----------------------------------------------------------------------------
(* Bounds of the model *)

\* distinct base names in a source directory
MaxStems == 1
\* files in a source directory
MaxDirSize == 2
\* largest frame count a video reports
MaxTotalFrames == 4
\* largest requested frame count
MaxFrameCount == 3
\* largest RMS error the solve returns
MaxRms == 1
\* largest mean reprojection error, in quarter pixels
MaxMeanError == 4
\* box edge lengths tried: the default and the multiples of BoxStepMm
BoxStepMm == 60
MaxBoxSteps == 4
\* margins tried: the default and the multiples of MarginStepMm from 0
MarginStepMm == 40
MaxMarginSteps == 4

-----------------------------------------------------------------------------
(* Files, glob, sorted(list(set(...))) *)

Min(a, b) == IF a < b THEN a ELSE b

Lower(e) ==
    CASE e = "MOV" -> "mov"
      [] e = "JPG" -> "jpg"
      [] e = "PNG" -> "png"
      [] OTHER -> e

\* Position of an extension in string order (upper case sorts before lower)
ExtRank(e) ==
    CASE e = "JPG" -> 1
      [] e = "MOV" -> 2
      [] e = "PNG" -> 3
      [] e = "jpg" -> 4
      [] e = "mov" -> 5
      [] e = "png" -> 6
      [] OTHER -> 7

File(s, e) == [stem |-> s, ext |-> e]

\* String order of two paths of one directory
PathLess(f, g) ==
    \/ f.stem < g.stem
    \/ f.stem = g.stem /\ ExtRank(f.ext) < ExtRank(g.ext)

\* glob.glob(os.path.join(dir, '*.<e>')): the matching files, as a set
Glob(dir, e, ci) ==
    {f \in dir : IF ci THEN Lower(f.ext) = Lower(e) ELSE f.ext = e}

\* The orders in which a directory listing may return the files of S
RECURSIVE Orders(_)
Orders(S) ==
    IF S = {} THEN {<<>>}
    ELSE UNION {{<<f>> \o o : o \in Orders(S \ {f})} : f \in S}

Range(s) == {s[k] : k \in 1..Len(s)}

\* sorted(list(S))
RECURSIVE Sorted(_)
Sorted(S) ==
    IF S = {} THEN <<>>
    ELSE LET m == CHOOSE f \in S : \A g \in S \ {f} : PathLess(f, g)
         IN <<m>> \o Sorted(S \ {m})

\* sorted(paths) without the set: a path listed twice stays twice
RECURSIVE SortedKeepingDuplicates(_)
SortedKeepingDuplicates(paths) ==
    IF paths = <<>> THEN <<>>
    ELSE LET m == CHOOSE k \in 1..Len(paths) :
                    \A j \in 1..Len(paths) : ~PathLess(paths[j], paths[k])
         IN <<paths[m]>> \o SortedKeepingDuplicates(
                [j \in 1..Len(paths) - 1 |-> IF j < m THEN paths[j] ELSE paths[j + 1]])

\* sorted(list(set(paths)))
SortedUnique(paths) == Sorted(Range(paths))

\* A directory a file system can hold: without case sensitivity no two names
\* differ by case only
ValidDir(d, ci) ==
    /\ Cardinality(d) <= MaxDirSize
    /\ ci => \A f, g \in d : (f.stem = g.stem /\ Lower(f.ext) = Lower(g.ext)) => f = g

Dirs(exts, ci) ==
    {d \in SUBSET {File(s, e) : s \in 1..MaxStems, e \in exts \cup {"txt"}} :
        ValidDir(d, ci)}

-----------------------------------------------------------------------------
(* Frame extractor: src/utils/frame_extractor.py *)

\* os.path.splitext(os.path.basename(video_file))[0]
video_name_without_ext(f) == f.stem

\* the decimal digits of n >= 0, most significant first
RECURSIVE Digits(_)
Digits(n) == IF n < 10 THEN <<n>> ELSE Digits(n \div 10) \o <<n % 10>>

\* f"{n:03d}"
RECURSIVE ZeroPad(_, _)
ZeroPad(d, w) == IF Len(d) >= w THEN d ELSE ZeroPad(<<0>> \o d, w)

Pad3(n) == ZeroPad(Digits(n), 3)

\* f"{video_name_without_ext}_frame_{i+1:03d}.jpg", pos = i + 1
output_filename(f, pos) ==
    <<video_name_without_ext(f), "_frame_">> \o Pad3(pos) \o <<".jpg">>

\* the requested count taken even when the video is shorter
frames_to_extract_uncapped(total, count) == count

frames_to_extract_current(total, count) ==
    IF total < count THEN total ELSE count

\* the list comprehension of line 88
SpacedIndices(total, n) ==
    LET interval == total \div n
    IN [k \in 1..n |-> Min((k - 1) * interval, total - 1)]

\* lines 96-98: force the last index to the last frame
ForceLast(idx, total, n) ==
    IF n > 1 /\ total > 1 /\ idx[Len(idx)] < total - 1
    THEN [idx EXCEPT ![Len(idx)] = total - 1]
    ELSE idx

\* lines 84-90 without the correction of lines 96-98
FrameIndicesUnforced(total, n) ==
    IF n > 1 THEN SpacedIndices(total, n) ELSE <<0>>

\* lines 84-98, for n = frames_to_extract_current >= 1
FrameIndices(total, n) ==
    IF n > 1 THEN ForceLast(SpacedIndices(total, n), total, n) ELSE <<0>>

\* the check of line 49 left out
not_video_files_skipped(files) == FALSE

\* line 49: if not video_files
not_video_files(files) == files = <<>>

\* lines 33-55
ExtStart ==
    /\ script = "extractor" /\ pc = "start"
    /\ output_dir_exists' = TRUE
    /\ made_dirs' = ~output_dir_exists
    /\ \E l1 \in Orders(Glob(source_dir, "mov", caseInsensitive)),
          l2 \in Orders(Glob(source_dir, "MOV", caseInsensitive)) :
          video_files' = SortedUnique(l1 \o l2)
    /\ IF not_video_files(video_files')
       THEN /\ reported' = reported \cup {<<"no_videos_found">>}
            /\ pc' = "done"
            /\ vidx' = vidx
       ELSE /\ reported' = reported
            /\ pc' = "videos"
            /\ vidx' = 1
    /\ UNCHANGED <<env_vars, written, frame_count, open_caps, total_frames,
                   frame_indices, fpos, frames_saved, failed_positions>>
    /\ UNCHANGED <<img_vars, cal_vars, gen_vars>>

\* lines 58-99: one pass of the for loop up to the extraction loop
ExtOpenVideo ==
    /\ script = "extractor" /\ pc = "videos" /\ vidx <= Len(video_files)
    /\ \E opened \in BOOLEAN, total \in 0..MaxTotalFrames :
         LET n == frames_to_extract_current(total, frame_count) IN
         IF ~opened
         THEN /\ reported' = reported \cup {<<"could_not_open", video_files[vidx]>>}
              /\ vidx' = vidx + 1
              /\ UNCHANGED <<pc, open_caps, total_frames, frame_indices, fpos,
                             frames_saved, failed_positions>>
         ELSE IF total <= 0
         THEN /\ reported' = reported \cup {<<"zero_frames", video_files[vidx]>>}
              /\ vidx' = vidx + 1
              /\ total_frames' = total
              /\ UNCHANGED <<pc, open_caps, frame_indices, fpos,
                             frames_saved, failed_positions>>
         ELSE IF n < 1
         THEN /\ reported' = reported \cup {<<"no_frames_to_extract", video_files[vidx]>>}
              /\ vidx' = vidx + 1
              /\ total_frames' = total
              /\ UNCHANGED <<pc, open_caps, frame_indices, fpos,
                             frames_saved, failed_positions>>
         ELSE /\ reported' = IF total < frame_count
                             THEN reported \cup {<<"fewer_frames", video_files[vidx]>>} ELSE reported
              /\ open_caps' = open_caps \cup {video_files[vidx]}
              /\ total_frames' = total
              /\ frame_indices' = FrameIndices(total, n)
              /\ fpos' = 1
              /\ frames_saved' = 0
              /\ failed_positions' = <<>>
              /\ pc' = "frames"
              /\ vidx' = vidx
    /\ UNCHANGED <<env_vars, fs_vars, frame_count, video_files>>
    /\ UNCHANGED <<img_vars, cal_vars, gen_vars>>

\* the extraction loop left at the first failed read (break after the warning)
ExtReadFrameAborting ==
    /\ script = "extractor" /\ pc = "frames" /\ fpos <= Len(frame_indices)
    /\ \E read_ok \in BOOLEAN :
         IF read_ok
         THEN /\ written' = Append(written, output_filename(video_files[vidx], fpos))
              /\ frames_saved' = frames_saved + 1
              /\ fpos' = fpos + 1
              /\ UNCHANGED <<failed_positions, reported>>
         ELSE /\ failed_positions' = Append(failed_positions, frame_indices[fpos])
              /\ reported' = reported \cup {<<"could_not_read_frame", video_files[vidx], frame_indices[fpos]>>}
              /\ fpos' = Len(frame_indices) + 1
              /\ UNCHANGED <<written, frames_saved>>
    /\ UNCHANGED <<env_vars, output_dir_exists, made_dirs, pc, frame_count,
                   video_files, vidx, open_caps, total_frames, frame_indices>>
    /\ UNCHANGED <<img_vars, cal_vars, gen_vars>>

\* lines 103-115: one pass of the extraction loop
ExtReadFrame ==
    /\ script = "extractor" /\ pc = "frames" /\ fpos <= Len(frame_indices)
    /\ \E read_ok \in BOOLEAN :
         IF read_ok
         THEN /\ written' = Append(written, output_filename(video_files[vidx], fpos))
              /\ frames_saved' = frames_saved + 1
              /\ UNCHANGED <<failed_positions, reported>>
         ELSE /\ failed_positions' = Append(failed_positions, frame_indices[fpos])
              /\ reported' = reported \cup {<<"could_not_read_frame", video_files[vidx], frame_indices[fpos]>>}
              /\ UNCHANGED <<written, frames_saved>>
    /\ fpos' = fpos + 1
    /\ UNCHANGED <<env_vars, output_dir_exists, made_dirs, pc, frame_count,
                   video_files, vidx, open_caps, total_frames, frame_indices>>
    /\ UNCHANGED <<img_vars, cal_vars, gen_vars>>

\* lines 117-118
ExtFinishVideo ==
    /\ script = "extractor" /\ pc = "frames" /\ fpos > Len(frame_indices)
    /\ reported' = reported \cup {<<"saved_frames", video_files[vidx], frames_saved>>}
    /\ open_caps' = open_caps \ {video_files[vidx]}
    /\ vidx' = vidx + 1
    /\ pc' = "videos"
    /\ UNCHANGED <<env_vars, fs_vars, frame_count, video_files, total_frames,
                   frame_indices, fpos, frames_saved, failed_positions>>
    /\ UNCHANGED <<img_vars, cal_vars, gen_vars>>

\* line 120
ExtComplete ==
    /\ script = "extractor" /\ pc = "videos" /\ vidx > Len(video_files)
    /\ reported' = reported \cup {<<"extraction_complete">>}
    /\ pc' = "done"
    /\ UNCHANGED <<env_vars, fs_vars, ext_vars>>
    /\ UNCHANGED <<img_vars, cal_vars, gen_vars>>


-----------------------------------------------------------------------------
(* What the image scripts share: the image search and the per-image steps *)

IMAGE_EXTENSIONS == <<"jpg", "JPG", "png", "PNG">>

\* all_paths after the loop over extensions: one listing per pattern, each in
\* an order of the file system's choosing
RECURSIVE AllPaths(_, _, _)
AllPaths(dir, k, ci) ==
    IF k = 0 THEN {<<>>}
    ELSE {a \o l : a \in AllPaths(dir, k - 1, ci),
                   l \in Orders(Glob(dir, IMAGE_EXTENSIONS[k], ci))}

\* if not image_paths
not_image_paths(paths) == paths = <<>>

\* os.path.basename(image_path)
img_name(f) == <<f.stem, ".", f.ext>>

-----------------------------------------------------------------------------
(* Corner visualizer: src/utils/visualize_corners.py *)

\* lines 104 and 109: f"detected_{img_name}" or f"failed_{img_name}"
vis_output_name(f, found) ==
    <<IF found THEN "detected_" ELSE "failed_">> \o img_name(f)

\* lines 25-45
VisStart ==
    /\ script = "visualizer" /\ pc = "start"
    /\ output_dir_exists' = TRUE
    /\ made_dirs' = ~output_dir_exists
    /\ \E all_paths \in AllPaths(source_dir, Len(IMAGE_EXTENSIONS), caseInsensitive) :
          image_paths' = SortedUnique(all_paths)
    /\ IF not_image_paths(image_paths')
       THEN /\ reported' = reported \cup {<<"no_images_found">>}
            /\ pc' = "done"
            /\ iidx' = iidx
       ELSE /\ reported' = reported
            /\ pc' = "images"
            /\ iidx' = 1
    /\ UNCHANGED <<env_vars, written, outcomes, detect_calls>>
    /\ UNCHANGED <<ext_vars, cal_vars, gen_vars>>

\* lines 52-112: one pass of the for loop
VisProcessImage ==
    /\ script = "visualizer" /\ pc = "images" /\ iidx <= Len(image_paths)
    /\ LET f == image_paths[iidx] IN
       \E readable \in BOOLEAN, found \in BOOLEAN :
         IF ~readable
         THEN /\ reported' = reported \cup {<<"could_not_read", f>>}
              /\ outcomes' = Append(outcomes, "unreadable")
              /\ UNCHANGED <<written, detect_calls>>
         ELSE /\ detect_calls' = Append(detect_calls, f)
              /\ reported' = reported \cup
                    {<<IF found THEN "success" ELSE "failure", f>>}
              /\ outcomes' = Append(outcomes, IF found THEN "found" ELSE "not_found")
              /\ written' = Append(written, vis_output_name(f, found))
    /\ iidx' = iidx + 1
    /\ UNCHANGED <<env_vars, output_dir_exists, made_dirs, pc, image_paths>>
    /\ UNCHANGED <<ext_vars, cal_vars, gen_vars>>

\* line 114
VisComplete ==
    /\ script = "visualizer" /\ pc = "images" /\ iidx > Len(image_paths)
    /\ reported' = reported \cup {<<"processing_complete">>}
    /\ pc' = "done"
    /\ UNCHANGED <<env_vars, fs_vars, img_vars>>
    /\ UNCHANGED <<ext_vars, cal_vars, gen_vars>>

-----------------------------------------------------------------------------
(* Calibrator: src/calibrator.py *)

\* the check of line 92 left out
no_detections_skipped(n) == FALSE

\* line 92: if successful_detections == 0
no_detections(n) == n = 0

\* the check of line 102 left out
not_ret_skipped(r) == FALSE

\* line 102: if not ret
not_ret(r) == r = 0

\* the template appended for every decoded image, found or not
detection_branch_unpaired(found, op, ip, n, f) ==
    [objpoints |-> Append(op, "objp"),
     imgpoints |-> IF found THEN Append(ip, <<"corners_refined", f>>) ELSE ip,
     successful_detections |-> IF found THEN n + 1 ELSE n]

\* lines 75-88: what one detection result does to the two collections and
\* the counter; objp is the one grid template, corners_refined is per image
detection_branch(found, op, ip, n, f) ==
    IF found
    THEN [objpoints |-> Append(op, "objp"),
          imgpoints |-> Append(ip, <<"corners_refined", f>>),
          successful_detections |-> n + 1]
    ELSE [objpoints |-> op, imgpoints |-> ip, successful_detections |-> n]

\* cv2.calibrateCamera returns one rotation and one translation per view, in
\* the order of the views
poses(kind, ip) == [k \in 1..Len(ip) |-> <<kind, ip[k][2]>>]

\* the two thresholds taken inclusively (<= in place of <)
quality_inclusive(err) ==
    IF err <= 2 THEN "high_quality"
    ELSE IF err <= 4 THEN "decent" ELSE "low_quality"

\* lines 122-127, mean error in quarter pixels
quality(err) ==
    IF err < 2 THEN "high_quality"
    ELSE IF err < 4 THEN "decent" ELSE "low_quality"

\* lines 28-58
CalStart ==
    /\ script = "calibrator" /\ pc = "start"
    /\ \E all_paths \in AllPaths(source_dir, Len(IMAGE_EXTENSIONS), caseInsensitive) :
          image_paths' = SortedUnique(all_paths)
    /\ IF not_image_paths(image_paths')
       THEN /\ reported' = reported \cup {<<"no_images_found">>}
            /\ pc' = "done"
            /\ iidx' = iidx
       ELSE /\ reported' = reported
            /\ pc' = "images"
            /\ iidx' = 1
    /\ UNCHANGED <<env_vars, fs_vars, outcomes, detect_calls>>
    /\ UNCHANGED <<ext_vars, cal_vars, gen_vars>>

\* lines 60-88: one pass of the for loop
CalProcessImage ==
    /\ script = "calibrator" /\ pc = "images" /\ iidx <= Len(image_paths)
    /\ LET f == image_paths[iidx] IN
       \E readable \in BOOLEAN, found \in BOOLEAN :
         IF ~readable
         THEN /\ reported' = reported \cup {<<"could_not_read", f>>}
              /\ outcomes' = Append(outcomes, "unreadable")
              /\ UNCHANGED <<detect_calls, objpoints, imgpoints,
                             successful_detections, image_shape>>
         ELSE LET b == detection_branch(found, objpoints, imgpoints,
                                        successful_detections, f) IN
              /\ image_shape' = IF image_shape = <<>> THEN <<f>> ELSE image_shape
              /\ detect_calls' = Append(detect_calls, f)
              /\ objpoints' = b.objpoints
              /\ imgpoints' = b.imgpoints
              /\ successful_detections' = b.successful_detections
              /\ reported' = reported \cup
                    {<<IF found THEN "success" ELSE "failure", f>>}
              /\ outcomes' = Append(outcomes, IF found THEN "found" ELSE "not_found")
    /\ iidx' = iidx + 1
    /\ UNCHANGED <<env_vars, fs_vars, pc, image_paths>>
    /\ UNCHANGED <<solve, ret, rvecs, tvecs, mean_error, saved>>
    /\ UNCHANGED <<ext_vars, gen_vars>>

\* lines 90-110: the count report, the zero check, the solve and its check
CalSolve ==
    /\ script = "calibrator" /\ pc = "images" /\ iidx > Len(image_paths)
    /\ IF no_detections(successful_detections)
       THEN /\ reported' = reported \cup {<<"no_successful_detections">>}
            /\ pc' = "done"
            /\ UNCHANGED <<solve, ret, rvecs, tvecs>>
       ELSE \/ /\ solve' = "raised"
               /\ pc' = "crashed"
               /\ UNCHANGED <<reported, ret, rvecs, tvecs>>
            \/ \E r \in 0..MaxRms :
               /\ solve' = "returned"
               /\ ret' = r
               /\ rvecs' = poses("rvec", imgpoints)
               /\ tvecs' = poses("tvec", imgpoints)
               /\ IF not_ret(r)
                  THEN /\ reported' = reported \cup {<<"calibration_failed">>}
                       /\ pc' = "done"
                  ELSE /\ reported' = reported \cup {<<"calibration_results">>}
                       /\ pc' = "solved"
    /\ UNCHANGED <<env_vars, fs_vars, img_vars, objpoints, imgpoints,
                   successful_detections, image_shape, mean_error, saved>>
    /\ UNCHANGED <<ext_vars, gen_vars>>

\* lines 112-138: the reprojection error, its classification and the save
CalReportAndSave ==
    /\ script = "calibrator" /\ pc = "solved"
    /\ \E err \in 0..MaxMeanError :
         /\ mean_error' = err
         /\ reported' = reported \cup {<<quality(err)>>}
    /\ written' = Append(written, <<"OUTPUT_FILE">>)
    /\ saved' = <<[mtx |-> "mtx", dist |-> "dist", rvecs |-> rvecs, tvecs |-> tvecs]>>
    /\ pc' = "done"
    /\ UNCHANGED <<env_vars, output_dir_exists, made_dirs, img_vars, objpoints,
                   imgpoints, successful_detections, image_shape, solve, ret,
                   rvecs, tvecs>>
    /\ UNCHANGED <<ext_vars, gen_vars>>

-----------------------------------------------------------------------------
(* Target generator: src/utils/checker_generator.py *)

\* A4, in millimetres
PAGE_WIDTH_MM == 210
PAGE_HEIGHT_MM == 297
\* the arguments of the call under __main__
BOX_SIZE_MM == 18
MARGIN_IN_MM == 15

color1 == "#8B0000"
color2 == "#00008B"
top_left_color == "#FFD700"
top_right_color == "#00FF00"
bottom_left_color == "#FF00FF"
bottom_right_color == "#00FFFF"

\* the margin taken off one side only
drawable_one_margin(page, margin) == page - margin

\* lines 34-35: page dimension less the margin on both sides
drawable(page, margin) == page - 2 * margin

\* lines 41-42: math.floor(drawable / box_size)
num_boxes(drawable_len, box_size) == drawable_len \div box_size

\* the bottom-right test left out
current_color_three_corners(r, c, nx, ny) ==
    IF r = 0 /\ c = 0 THEN "#FF00FF"
    ELSE IF r = ny - 1 /\ c = 0 THEN "#FFD700"
    ELSE IF r = ny - 1 /\ c = nx - 1 THEN "#00FF00"
    ELSE IF (r + c) % 2 = 0 THEN "#8B0000" ELSE "#00008B"

\* lines 55-71
current_color(r, c, nx, ny) ==
    IF r = 0 /\ c = 0 THEN bottom_left_color
    ELSE IF r = 0 /\ c = nx - 1 THEN bottom_right_color
    ELSE IF r = ny - 1 /\ c = 0 THEN top_left_color
    ELSE IF r = ny - 1 /\ c = nx - 1 THEN top_right_color
    ELSE IF (r + c) % 2 = 0 THEN color1 ELSE color2

\* lines 77-78
offset(margin, index, box_size) == margin + index * box_size

\* lines 27-50
GenLayout ==
    /\ script = "generator" /\ pc = "start"
    /\ num_boxes_x' = num_boxes(drawable(PAGE_WIDTH_MM, margin_mm), box_size_mm)
    /\ num_boxes_y' = num_boxes(drawable(PAGE_HEIGHT_MM, margin_mm), box_size_mm)
    /\ reported' = reported \cup {<<"margin">>, <<"box_size">>, <<"grid">>}
    /\ row' = 0
    /\ col' = 0
    /\ pc' = "draw"
    /\ UNCHANGED <<env_vars, fs_vars, box_size_mm, margin_mm, rects>>
    /\ UNCHANGED <<ext_vars, img_vars, cal_vars>>

\* lines 53-80: one pass of the inner loop
GenDrawBox ==
    /\ script = "generator" /\ pc = "draw"
    /\ row < num_boxes_y /\ col < num_boxes_x
    /\ rects' = Append(rects,
                  [x |-> offset(margin_mm, col, box_size_mm),
                   y |-> offset(margin_mm, row, box_size_mm),
                   width |-> box_size_mm,
                   height |-> box_size_mm,
                   fill |-> current_color(row, col, num_boxes_x, num_boxes_y)])
    /\ IF col + 1 < num_boxes_x
       THEN col' = col + 1 /\ row' = row
       ELSE col' = 0 /\ row' = row + 1
    /\ UNCHANGED <<env_vars, fs_vars, reported, pc, box_size_mm, margin_mm,
                   num_boxes_x, num_boxes_y>>
    /\ UNCHANGED <<ext_vars, img_vars, cal_vars>>

\* lines 82-83: the loops are over (or had nothing to run over)
GenSave ==
    /\ script = "generator" /\ pc = "draw"
    /\ ~(row < num_boxes_y /\ col < num_boxes_x)
    /\ written' = Append(written, <<"output_filename">>)
    /\ reported' = reported \cup {<<"created">>}
    /\ pc' = "done"
    /\ UNCHANGED <<env_vars, output_dir_exists, made_dirs, gen_vars>>
    /\ UNCHANGED <<ext_vars, img_vars, cal_vars>>

-----------------------------------------------------------------------------
(* The runs *)

BoxSizes == {BOX_SIZE_MM} \cup {k * BoxStepMm : k \in 1..MaxBoxSteps}
Margins == {MARGIN_IN_MM} \cup {k * MarginStepMm : k \in 0..MaxMarginSteps}

ExtIdle ==
    /\ video_files = <<>> /\ vidx = 0 /\ open_caps = {}
    /\ total_frames = 0 /\ frame_indices = <<>> /\ fpos = 0
    /\ frames_saved = 0 /\ failed_positions = <<>>

ImgIdle ==
    /\ image_paths = <<>> /\ iidx = 0 /\ outcomes = <<>> /\ detect_calls = <<>>

CalIdle ==
    /\ objpoints = <<>> /\ imgpoints = <<>> /\ successful_detections = 0
    /\ image_shape = <<>> /\ solve = "none" /\ ret = 0
    /\ rvecs = <<>> /\ tvecs = <<>> /\ mean_error = 0 /\ saved = <<>>

GenIdle ==
    /\ num_boxes_x = 0 /\ num_boxes_y = 0 /\ row = 0 /\ col = 0 /\ rects = <<>>

InitExtractor ==
    /\ script = "extractor"
    /\ caseInsensitive \in BOOLEAN
    /\ output_dir_exists \in BOOLEAN
    /\ source_dir \in Dirs({"mov", "MOV"}, caseInsensitive)
    /\ frame_count \in 0..MaxFrameCount
    /\ box_size_mm = 0 /\ margin_mm = 0

InitImages ==
    /\ script \in {"visualizer", "calibrator"}
    /\ caseInsensitive \in BOOLEAN
    /\ output_dir_exists \in BOOLEAN
    /\ source_dir \in Dirs(Range(IMAGE_EXTENSIONS), caseInsensitive)
    /\ frame_count = 0
    /\ box_size_mm = 0 /\ margin_mm = 0

InitGenerator ==
    /\ script = "generator"
    /\ caseInsensitive = FALSE
    /\ output_dir_exists = TRUE
    /\ source_dir = {}
    /\ frame_count = 0
    /\ box_size_mm \in BoxSizes
    /\ margin_mm \in Margins

Init ==
    /\ made_dirs = FALSE
    /\ written = <<>>
    /\ reported = {}
    /\ pc = "start"
    /\ ExtIdle /\ ImgIdle /\ CalIdle /\ GenIdle
    /\ (InitExtractor \/ InitImages \/ InitGenerator)

Next ==
    \/ ExtStart
    \/ ExtOpenVideo
    \/ ExtReadFrame
    \/ ExtFinishVideo
    \/ ExtComplete
    \/ VisStart
    \/ VisProcessImage
    \/ VisComplete
    \/ CalStart
    \/ CalProcessImage
    \/ CalSolve
    \/ CalReportAndSave
    \/ GenLayout
    \/ GenDrawBox
    \/ GenSave

Spec == Init /\ [][Next]_vars

\* A run of the calibrator alone.  The script is one sequential thread, so a
\* step that can be taken is taken: weak fairness of its steps.
InitCalibrator == Init /\ script = "calibrator"

NextCalibrator ==
    \/ CalStart
    \/ CalProcessImage
    \/ CalSolve
    \/ CalReportAndSave

CalibratorFairSpec ==
    InitCalibrator /\ [][NextCalibrator]_vars /\ WF_vars(NextCalibrator)

-----------------------------------------------------------------------------
(* Properties of the frame extractor *)

NonDecreasing(s) == \A k \in 1..Len(s) - 1 : s[k] <= s[k + 1]

Last(s) == s[Len(s)]

\* the extraction loop of the current video has run over every sampled index
AtLoopEnd == script = "extractor" /\ pc = "frames" /\ fpos > Len(frame_indices)

\* a video at least as long as the request, all of whose reads succeeded
C1_Case == AtLoopEnd /\ total_frames >= frame_count /\ failed_positions = <<>>

\* C1 as stated: for a video with total_frames >= the requested count whose
\* reads all succeed, the saved frames number the requested count, the
\* sampled indices are non-decreasing and the last one is total_frames - 1.
C1_LastFrameAlways ==
    C1_Case =>
        /\ frames_saved = frame_count
        /\ NonDecreasing(frame_indices)
        /\ Last(frame_indices) = total_frames - 1

\* C1 amended: as above, but the last sampled index is total_frames - 1 only
\* when at least two frames are requested; a request for one frame samples
\* index 0, the first frame, alone.
C1_LastFrameWhenSeveral ==
    C1_Case =>
        /\ frames_saved = frame_count
        /\ Len(frame_indices) = frame_count
        /\ NonDecreasing(frame_indices)
        /\ frame_count >= 2 => Last(frame_indices) = total_frames - 1
        /\ frame_count = 1 => frame_indices = <<0>>

\* a video longer than the request whose evenly spaced indices stop short of
\* the last frame, which lines 96-98 then put in
C1_Witness ==
    /\ C1_Case
    /\ frame_count >= 2
    /\ (frame_count - 1) * (total_frames \div frame_count) < total_frames - 1
    /\ Last(frame_indices) = total_frames - 1

\* a video with at least one frame and fewer than requested
C2_Case ==
    /\ script = "extractor" /\ pc = "frames"
    /\ total_frames >= 1 /\ total_frames < frame_count

\* C2: for a video with 1 <= total_frames < the requested count the sampled
\* indices are exactly 0, 1, ..., total_frames - 1, and the loop visits each
\* once: saved and failed reads together number total_frames.
C2_EveryFrameOnceInOrder ==
    C2_Case =>
        /\ frame_indices = [k \in 1..total_frames |-> k - 1]
        /\ AtLoopEnd => frames_saved + Len(failed_positions) = total_frames

C2_Witness ==
    /\ C2_Case /\ AtLoopEnd
    /\ total_frames >= 2
    /\ frames_saved = total_frames

\* C10: within one run of the extractor no two saved frames are written to
\* the same output path.
C10_UniqueOutputPaths ==
    script = "extractor" =>
        \A a, b \in 1..Len(written) : a # b => written[a] # written[b]

\* the saved counts printed so far, one per finished video, added up
RECURSIVE SumSaved(_)
SumSaved(msgs) ==
    IF msgs = {} THEN 0
    ELSE LET m == CHOOSE x \in msgs : TRUE
         IN m[3] + SumSaved(msgs \ {m})

SavedReports == {m \in reported : Len(m) = 3 /\ m[1] = "saved_frames"}

\* the videos the loop has dealt with: each has its skip message or its
\* saved count
Dealt(f) ==
    \/ <<"could_not_open", f>> \in reported
    \/ <<"zero_frames", f>> \in reported
    \/ <<"no_frames_to_extract", f>> \in reported
    \/ \E n \in 0..Len(written) : <<"saved_frames", f, n>> \in reported

\* C11: a failed read is logged and writes no file, and the loop goes on:
\* every sampled position is attempted once (saved or failed, never both),
\* the saved count printed is the number of files written for the video,
\* the handle is open only while the video's frames are read, and every
\* video of the list is dealt with.
C11_FailedReadSkipsOnlyThatFrame ==
    script = "extractor" =>
        /\ pc = "frames" =>
              /\ frames_saved + Len(failed_positions) = fpos - 1
              /\ AtLoopEnd => frames_saved + Len(failed_positions) = Len(frame_indices)
              /\ \A k \in 1..Len(failed_positions) :
                    <<"could_not_read_frame", video_files[vidx], failed_positions[k]>>
                        \in reported
              /\ open_caps = {video_files[vidx]}
        /\ Len(written) = SumSaved(SavedReports)
                            + (IF pc = "frames" THEN frames_saved ELSE 0)
        /\ pc # "frames" => open_caps = {}
        /\ pc = "videos" => \A k \in 1..vidx - 1 : Dealt(video_files[k])
        /\ (pc = "done" /\ video_files # <<>>) =>
              \A k \in 1..Len(video_files) : Dealt(video_files[k])

\* the first video's first read failed, a later read of it was saved, and
\* the second video was extracted after it
C11_Witness ==
    /\ script = "extractor" /\ pc = "done"
    /\ Len(video_files) = 2
    /\ <<"could_not_read_frame", video_files[1], 0>> \in reported
    /\ \E n \in 1..MaxFrameCount : <<"saved_frames", video_files[1], n>> \in reported
    /\ \E n \in 1..MaxFrameCount : <<"saved_frames", video_files[2], n>> \in reported
    /\ open_caps = {}

-----------------------------------------------------------------------------
(* Properties of the calibrator *)

\* the images among the first k processed whose corners were found, in order
RECURSIVE Detected(_)
Detected(k) ==
    IF k = 0 THEN <<>>
    ELSE IF outcomes[k] = "found"
         THEN Append(Detected(k - 1), image_paths[k])
         ELSE Detected(k - 1)

CalEnded == script = "calibrator" /\ pc \in {"done", "crashed"}

\* C3: with no successful detection the solve is never invoked and nothing
\* is written, and the run ends having reported an error.
C3_ZeroDetectionsNoOutput ==
    (script = "calibrator" /\ successful_detections = 0) =>
        /\ solve = "none"
        /\ written = <<>> /\ saved = <<>>
        /\ pc \notin {"solved", "crashed"}
        /\ pc = "done" =>
              \/ <<"no_images_found">> \in reported
              \/ <<"no_successful_detections">> \in reported

\* every image was read, one unreadable and one without corners
C3_Witness ==
    /\ CalEnded
    /\ successful_detections = 0
    /\ "unreadable" \in Range(outcomes)
    /\ "not_found" \in Range(outcomes)

\* C4: the two correspondence collections always have the length of the
\* successful detections so far and hold them in input order; no image ends
\* the loop early; the archive holds one rotation and one translation per
\* successful detection.
C4_ParallelCollections ==
    script = "calibrator" =>
        LET d == Detected(Len(outcomes)) IN
        /\ Len(objpoints) = Len(d)
        /\ Len(imgpoints) = Len(d)
        /\ successful_detections = Len(d)
        /\ \A k \in 1..Len(imgpoints) : imgpoints[k] = <<"corners_refined", d[k]>>
        /\ (pc \notin {"start", "images"} /\ image_paths # <<>>) =>
              Len(outcomes) = Len(image_paths)
        /\ saved # <<>> =>
              /\ Len(saved[1].rvecs) = Len(d)
              /\ Len(saved[1].tvecs) = Len(d)
              /\ \A k \in 1..Len(d) :
                    /\ saved[1].rvecs[k] = <<"rvec", d[k]>>
                    /\ saved[1].tvecs[k] = <<"tvec", d[k]>>

\* an archive written after one image failed detection and another succeeded
C4_Witness ==
    /\ script = "calibrator" /\ saved # <<>>
    /\ "found" \in Range(outcomes)
    /\ Range(outcomes) # {"found"}
    /\ Len(saved[1].rvecs) = successful_detections

\* C8: a solve that returns a false value is reported and ends the run with
\* nothing written; whatever is written was written after a solve that
\* returned a true value.
C8_SolveFailureNoOutput ==
    script = "calibrator" =>
        /\ (solve = "returned" /\ ret = 0) =>
              /\ <<"calibration_failed">> \in reported
              /\ pc = "done"
              /\ written = <<>> /\ saved = <<>>
        /\ (written # <<>> \/ saved # <<>>) =>
              /\ solve = "returned" /\ ret # 0
              /\ <<"calibration_failed">> \notin reported
              /\ written = <<<<"OUTPUT_FILE">>>>

C8_Witness ==
    /\ CalEnded
    /\ solve = "returned" /\ ret = 0
    /\ <<"calibration_failed">> \in reported

QualityMessages == {<<"high_quality">>, <<"decent">>, <<"low_quality">>}

\* the solve returned a true value: the run is past the check of line 102
SolveSucceeded == script = "calibrator" /\ solve = "returned" /\ ret # 0

\* the message of the bucket the mean error falls into: below 0.5 pixel,
\* else below 1.0 pixel, else the rest (2 and 4 quarter pixels)
BucketMessage ==
    IF mean_error < 2 THEN <<"high_quality">>
    ELSE IF mean_error < 4 THEN <<"decent">>
    ELSE <<"low_quality">>

\* no quality message before the report; after it exactly one, that of the
\* bucket, with the archive written
C12_OneMessageAndArchive ==
    script = "calibrator" =>
        /\ (pc # "done" \/ ~SolveSucceeded) =>
              /\ reported \cap QualityMessages = {}
              /\ saved = <<>>
        /\ (pc = "done" /\ SolveSucceeded) =>
              /\ reported \cap QualityMessages = {BucketMessage}
              /\ saved # <<>>
              /\ written = <<<<"OUTPUT_FILE">>>>

\* C12: the quality classification is advisory: once the solve has
\* succeeded, the one step that follows reports exactly one quality message,
\* that of the bucket of the mean error, and writes the archive in every
\* bucket; and that step is always taken.
C12_QualityAdvisory ==
    /\ []C12_OneMessageAndArchive
    /\ [][pc = "solved" => (pc' = "done" /\ saved' # <<>>
                            /\ Cardinality(reported' \cap QualityMessages) = 1)]_vars
    /\ (pc = "solved") ~> (pc = "done" /\ saved # <<>>)

\* an archive written after the low-quality message
C12_Witness ==
    /\ script = "calibrator" /\ pc = "done"
    /\ SolveSucceeded
    /\ mean_error >= 4
    /\ <<"low_quality">> \in reported
    /\ saved # <<>>

-----------------------------------------------------------------------------
(* Properties of the corner visualizer *)

\* the positions of `written` that hold an output for image f
OutputsFor(f) ==
    {j \in 1..Len(written) : SubSeq(written[j], 2, Len(written[j])) = img_name(f)}

\* C9: detection is attempted at most once per image; a decoded image has
\* exactly one output, detected_<name> if its corners were found and
\* failed_<name> if not; an unreadable image has a warning and no output;
\* the loop goes on to every image.
C9_OneOutputPerReadableImage ==
    script = "visualizer" =>
        /\ \A f \in Range(image_paths) :
              Cardinality({j \in 1..Len(detect_calls) : detect_calls[j] = f}) <= 1
        /\ \A k \in 1..Len(outcomes) :
              LET f == image_paths[k] IN
              IF outcomes[k] = "unreadable"
              THEN /\ <<"could_not_read", f>> \in reported
                   /\ OutputsFor(f) = {}
              ELSE /\ Cardinality(OutputsFor(f)) = 1
                   /\ \A j \in OutputsFor(f) :
                         written[j][1] = IF outcomes[k] = "found"
                                         THEN "detected_" ELSE "failed_"
        /\ Len(written) = Len(detect_calls)
        /\ pc = "done" => Len(outcomes) = Len(image_paths)

\* an unreadable image followed by one that was decoded and written
C9_Witness ==
    /\ script = "visualizer" /\ pc = "done"
    /\ Len(outcomes) = 2
    /\ outcomes[1] = "unreadable"
    /\ outcomes[2] = "found"
    /\ Len(written) = 1

-----------------------------------------------------------------------------
(* The three directory scans *)

\* the source directory holds no file the script's patterns match
NoMatchingFiles ==
    IF script = "extractor"
    THEN Glob(source_dir, "mov", caseInsensitive)
            \cup Glob(source_dir, "MOV", caseInsensitive) = {}
    ELSE \A k \in 1..Len(IMAGE_EXTENSIONS) :
            Glob(source_dir, IMAGE_EXTENSIONS[k], caseInsensitive) = {}

C5_Case ==
    /\ script \in {"extractor", "visualizer", "calibrator"}
    /\ pc # "start"
    /\ NoMatchingFiles

NotFoundReported ==
    IF script = "extractor"
    THEN <<"no_videos_found">> \in reported
    ELSE <<"no_images_found">> \in reported

\* C5 as stated: with no matching file the condition is reported, the run
\* is over, and it created or wrote nothing on the file system.
C5_NothingCreated ==
    C5_Case =>
        /\ pc = "done"
        /\ NotFoundReported
        /\ written = <<>> /\ saved = <<>>
        /\ ~made_dirs

\* C5 amended: with no matching file the condition is reported, the run is
\* over and no file was written; the extractor and the visualizer, which
\* make the output directory before they scan, leave that directory behind
\* if it did not exist, and the calibrator creates nothing.
C5_NoFileWritten ==
    C5_Case =>
        /\ pc = "done"
        /\ NotFoundReported
        /\ written = <<>> /\ saved = <<>>
        /\ detect_calls = <<>> /\ open_caps = {} /\ solve = "none"
        /\ made_dirs => (script # "calibrator" /\ output_dir_exists)

\* a directory with only a non-matching file, and the output directory made
C5_Witness ==
    /\ C5_Case
    /\ script = "visualizer"
    /\ source_dir # {}
    /\ made_dirs

-----------------------------------------------------------------------------
(* Properties of the target generator *)

GenLaidOut == script = "generator" /\ pc \in {"draw", "done"}

\* n is the floor of d / s, for s > 0
IsFloor(n, d, s) == n * s <= d /\ d < (n + 1) * s

AtLeastZero(n) == IF n < 0 THEN 0 ELSE n

\* every rectangle is a box of the grid, drawn in row-major order at the
\* margin plus its index times the box size, and ends before the far margin
BoxesOnGrid ==
    \A k \in 1..Len(rects) :
        LET r == (k - 1) \div num_boxes_x
            c == (k - 1) % num_boxes_x
        IN /\ r < num_boxes_y
           /\ rects[k].x = margin_mm + c * box_size_mm
           /\ rects[k].y = margin_mm + r * box_size_mm
           /\ rects[k].width = box_size_mm /\ rects[k].height = box_size_mm
           /\ rects[k].x + rects[k].width <= PAGE_WIDTH_MM - margin_mm
           /\ rects[k].y + rects[k].height <= PAGE_HEIGHT_MM - margin_mm

\* C6 as stated: the per-axis counts are the floors of (page - 2M) / S, the
\* rectangles drawn number their product, and each lies on the grid within
\* the far margin.
C6_CountIsProduct ==
    GenLaidOut =>
        /\ IsFloor(num_boxes_x, PAGE_WIDTH_MM - 2 * margin_mm, box_size_mm)
        /\ IsFloor(num_boxes_y, PAGE_HEIGHT_MM - 2 * margin_mm, box_size_mm)
        /\ pc = "done" => Len(rects) = num_boxes_x * num_boxes_y
        /\ BoxesOnGrid

\* C6 amended: as above, but the rectangles drawn number the product of the
\* two counts each taken as zero when negative (a margin of more than half
\* a page dimension makes a count negative, and nothing is drawn).
C6_CountIsClampedProduct ==
    GenLaidOut =>
        /\ IsFloor(num_boxes_x, PAGE_WIDTH_MM - 2 * margin_mm, box_size_mm)
        /\ IsFloor(num_boxes_y, PAGE_HEIGHT_MM - 2 * margin_mm, box_size_mm)
        /\ pc = "done" =>
              Len(rects) = AtLeastZero(num_boxes_x) * AtLeastZero(num_boxes_y)
        /\ BoxesOnGrid

\* the page of the call under __main__, fully drawn
C6_Witness ==
    /\ script = "generator" /\ pc = "done"
    /\ box_size_mm = BOX_SIZE_MM /\ margin_mm = MARGIN_IN_MM
    /\ Len(rects) = num_boxes_x * num_boxes_y
    /\ Len(rects) > num_boxes_x + num_boxes_y

BaseColors == {color1, color2}

\* the grid position of a rectangle, from where it was drawn
RowOf(rect) == (rect.y - margin_mm) \div box_size_mm
ColOf(rect) == (rect.x - margin_mm) \div box_size_mm

IsCorner(r, c) ==
    /\ r \in {0, num_boxes_y - 1}
    /\ c \in {0, num_boxes_x - 1}

\* the fill colours of the boxes drawn at the four corners of the grid
CornerFills ==
    {rects[k].fill : k \in {j \in 1..Len(rects) : IsCorner(RowOf(rects[j]), ColOf(rects[j]))}}

\* a corner box never has a base colour; any other box has the base colour
\* of the parity of row + column
FillRule ==
    \A k \in 1..Len(rects) :
        LET r == RowOf(rects[k])
            c == ColOf(rects[k])
        IN IF IsCorner(r, c)
           THEN rects[k].fill \notin BaseColors
           ELSE rects[k].fill = IF (r + c) % 2 = 0 THEN color1 ELSE color2

GridDrawn == script = "generator" /\ pc = "done" /\ Len(rects) > 0

\* C7 as stated: in every grid drawn the corner boxes have four mutually
\* distinct colours, none of them a base colour, and every other box has
\* the base colour of its parity.
C7_FourCornerColorsAlways ==
    /\ GenLaidOut => FillRule
    /\ GridDrawn => Cardinality(CornerFills) = 4

\* C7 amended: the four distinct corner colours are there in every grid of
\* at least two rows and two columns; with a single row or column corners
\* coincide and fewer colours appear.  The rest holds of every grid.
C7_FourCornerColorsFromTwoByTwo ==
    /\ GenLaidOut => FillRule
    /\ (GridDrawn /\ num_boxes_x >= 2 /\ num_boxes_y >= 2) =>
          /\ Cardinality(CornerFills) = 4
          /\ CornerFills \cap BaseColors = {}
    /\ GridDrawn => CornerFills # {}

C7_Witness ==
    /\ GridDrawn
    /\ num_boxes_x >= 3 /\ num_boxes_y >= 3
    /\ Cardinality(CornerFills) = 4
    /\ \E k \in 1..Len(rects) : rects[k].fill = color1
    /\ \E k \in 1..Len(rects) : rects[k].fill = color2

=============================================================================
